---- MODULE Spec2Model ----
(***************************************************************************)
(* Sales service of api_sales: LocalStorage (an unsynchronised map of      *)
(* pointers to Sale), the user-service client, and the three operations of *)
(* Service (CreateSale, SearchSale, UpdateSaleStatus), each run by the     *)
(* goroutine of the HTTP request that invoked it.                          *)
(*                                                                         *)
(* A Go error is modelled by its text, a sequence of fragments in the      *)
(* order fmt.Errorf joins them; the nil error is the empty sequence.       *)
(* A *Sale is modelled by the key of the object in the map: Set stores the *)
(* pointer it is given, and every sale is stored under a fresh uuid, so    *)
(* the object reached through m[id] is the one object with that id, and a  *)
(* write through a pointer returned by Read is a write to m[id].           *)
(***************************************************************************)
EXTENDS Integers, Sequences, FiniteSets, TLC

\* ------------------------------------------------------------------ bounds
\* Number of request goroutines that may be running at once.
MaxProcs == 2
\* Number of sales that can be created (distinct uuids).
MaxSales == 2
\* Largest reading of the wall clock.
MaxTime == 1

Procs == 1..MaxProcs
SaleIds == 1..MaxSales
Times == 0..MaxTime

\* ------------------------------------------------------------------ inputs
Statuses == {"pending", "approved", "rejected"}
\* What the user service does with GET <baseURL>/<userID>: 200, 404, another
\* status with some body, another status whose body holds the words
\* "usuario no encontrado", or no response at all (transport error).
Responses == {"ok", "notfound", "unexpected", "unexpectedNF", "transport"}

\* What the callers send when requests arrive one after the other:
\* (userID, amount) of POST /sales, the status of PATCH /sales/:id, the
\* userID and status filters of GET /sales, and what the user service answers.
SeqInputs ==
    [create |-> {<<"u1", 10>>, <<"u2", 25>>, <<"u1", 0>>, <<"u2", -5>>},
     target |-> {"approved", "rejected", "pending", "unknown"},
     users |-> {"", "u1", "u2"},
     filter |-> {"", "pending", "approved", "rejected", "unknown"},
     answers |-> Responses,
     documented |-> TRUE]

\* What the callers send when requests overlap.
ConcInputs ==
    [create |-> {<<"u1", 10>>, <<"u1", 0>>},
     target |-> {"approved", "rejected", "pending"},
     users |-> {"", "u1"},
     filter |-> {"", "approved"},
     answers |-> {"ok", "notfound"},
     documented |-> FALSE]

NoErr == <<>>
NilSale == 0
NoCall == [op |-> "none", userID |-> "", amount |-> 0, saleID |-> NilSale, status |-> ""]
NoMeta == [quantity |-> 0, approved |-> 0, rejected |-> 0, pending |-> 0, totalAmount |-> 0]
NoRes == [err |-> NoErr, sale |-> NilSale, sales |-> {}, meta |-> NoMeta]
NoPre == [status |-> "", version |-> 0, updatedAt |-> 0, direct |-> FALSE]
NoUpd == [status |-> "", version |-> 0]
NoQuery == [user_id |-> "", status |-> "", id |-> "", state |-> ""]

VARIABLES
    m,        \* LocalStorage.m: the stored sales, by id
    now,      \* the wall clock read by time.Now()
    pc,       \* where each request goroutine is in its call ("done": it returned)
    call,     \* the operation and arguments of each running call
    vresp,    \* the user service's answer within the call ("none": not asked)
    tmp,      \* the value of sale.Version loaded by sale.Version++
    res,      \* what the call returned
    pre,      \* history: the target sale as UpdateSaleStatus found it, and whether
              \* the call before this one created it
    accepted, \* history: per sale, how many UpdateSaleStatus calls returned success
    fresh,    \* history: the sale the latest call created, until the next call
    updated,  \* history: per sale, the status and version the latest successful
              \* UpdateSaleStatus returned it with (NoUpd: none yet)
    wrote,    \* history: the ids with which LocalStorage.Set has returned nil
    query,    \* the query parameters of the GET /sales request each goroutine serves
    code      \* the status code of the response each handler wrote (0: none yet)

vars == <<m, now, pc, call, vresp, tmp, res, pre, accepted, fresh, updated, wrote, query, code>>

\* ------------------------------------------------------------------ errors
ErrNotFound == <<"sale not found">>
ErrEmptyID == <<"empty sale ID">>
ErrInvalidTransition == <<"invalid status transition">>
ErrInvalidStatus == <<"invalid status value">>
ErrInvalidAmount == <<"amount must be greater than zero">>
ErrUserNotFound == <<"user not found">>
ErrUserValidation == <<"error validating user">>

\* strings.Contains(err.Error(), s), on the fragments of the text
Contains(err, s) == \E i \in 1..Len(err) : err[i] = s

\* fmt.Errorf("<prefix>: %w", err)
Wrap(prefix, err) == <<prefix>> \o err

\* ------------------------------------------------------------------ storage
\* variant: Set without the check of the id
SetUnchecked(store, id, sale) ==
    [err |-> NoErr,
     m |-> [k \in DOMAIN store \cup {id} |-> IF k = id THEN sale ELSE store[k]]]

\* variant: Set writes the map before it checks the id
SetChecksAfter(store, id, sale) ==
    [err |-> IF id = NilSale THEN ErrEmptyID ELSE NoErr,
     m |-> [k \in DOMAIN store \cup {id} |-> IF k = id THEN sale ELSE store[k]]]

\* variant: Set keeps the record already stored under the id
SetKeepsFirst(store, id, sale) ==
    IF id = NilSale
    THEN [err |-> ErrEmptyID, m |-> store]
    ELSE [err |-> NoErr,
          m |-> [k \in DOMAIN store \cup {id} |->
                    IF k \in DOMAIN store THEN store[k] ELSE sale]]

\* LocalStorage.Set
Set(store, id, sale) ==
    IF id = NilSale
    THEN [err |-> ErrEmptyID, m |-> store]
    ELSE [err |-> NoErr,
          m |-> [k \in DOMAIN store \cup {id} |-> IF k = id THEN sale ELSE store[k]]]

\* LocalStorage.Read
Read(store, id) ==
    IF id \notin DOMAIN store
    THEN [err |-> ErrNotFound, sale |-> NilSale]
    ELSE [err |-> NoErr, sale |-> id]

\* LocalStorage.GetAll
GetAll(store) == DOMAIN store

\* ------------------------------------------------------------------ user client
\* UserClient.GetUserByID: (user, err) for each answer of the service; user is
\* TRUE for a non-nil *User
GetUserByID(resp) ==
    CASE resp = "ok" -> [user |-> TRUE, err |-> NoErr]
      [] resp = "notfound" -> [user |-> FALSE, err |-> <<"usuario no encontrado">>]
      [] resp = "unexpected" ->
            [user |-> FALSE,
             err |-> <<"el servicio de usuarios devolvio un estado inesperado", "body">>]
      [] resp = "unexpectedNF" ->
            [user |-> FALSE,
             err |-> <<"el servicio de usuarios devolvio un estado inesperado",
                       "usuario no encontrado">>]
      [] OTHER ->
            [user |-> FALSE,
             err |-> <<"error al hacer la peticion al servicio de usuarios", "transport">>]

\* ------------------------------------------------------------------ service
\* variant: the check written amount < 0
InvalidAmountNegative(amount) == amount < 0

\* CreateSale: if amount <= 0
InvalidAmount(amount) == amount <= 0

\* variant: the not-found case tested with errors.Is against a newly built
\* error, which no error equals
CreateUserErrIs(err) ==
    IF FALSE THEN ErrUserNotFound ELSE ErrUserValidation

\* CreateSale: the error returned when GetUserByID failed with err
CreateUserErr(err) ==
    IF Contains(err, "usuario no encontrado") THEN ErrUserNotFound ELSE ErrUserValidation

\* SearchSale: the error returned when GetUserByID answered (user, err), NoErr
\* when the search goes on
SearchUserErr(r) ==
    IF r.err # NoErr THEN Wrap("error validating user", r.err)
    ELSE IF ~r.user THEN <<"usuario no encontrado">>
    ELSE NoErr

\* variant: an identifier generator that returns the same identifier again
NewStringAgain(store) == 1

\* uuid.NewString(): an identifier no earlier call returned; the identifiers are
\* numbered in the order they are handed out
NewString(store) == Cardinality(DOMAIN store) + 1

\* getRandomStatus: the values statuses[rand.Intn(len(statuses))] can take
getRandomStatus == {"pending", "approved", "rejected"}

\* time.Now(): the clock never runs backwards, and may have advanced
Now(t) == {u \in Times : t <= u /\ u <= t + 1}

\* variant: the sale built with the caller's userID left out
NewSaleAnonymous(id, userID, amount, status, t1, t2) ==
    [id |-> id, userID |-> "", amount |-> amount, status |-> status,
     createdAt |-> t1, updatedAt |-> t2, version |-> 1]

\* CreateSale: the Sale literal
NewSale(id, userID, amount, status, t1, t2) ==
    [id |-> id, userID |-> userID, amount |-> amount, status |-> status,
     createdAt |-> t1, updatedAt |-> t2, version |-> 1]

\* variant: only "approved" accepted as a target
InvalidTargetUnlessApproved(newStatus) == newStatus # "approved"

\* variant: the target validated like a search filter, against all three statuses
InvalidTargetAllowsPending(newStatus) == newStatus \notin Statuses

\* UpdateSaleStatus: newStatus != "approved" && newStatus != "rejected"
InvalidTarget(newStatus) == newStatus # "approved" /\ newStatus # "rejected"

\* UpdateSaleStatus: sale.Status != "pending"
NotPending(sale) == sale.status # "pending"

\* variant: the stored status checked before the target status
UpdateCheckTransitionFirst(store, saleID, newStatus) ==
    IF Read(store, saleID).err # NoErr THEN ErrNotFound
    ELSE IF NotPending(store[saleID]) THEN ErrInvalidTransition
    ELSE IF InvalidTarget(newStatus) THEN ErrInvalidStatus
    ELSE NoErr

\* variant: a transition refused only when it would not change the status
UpdateCheckSameStatus(store, saleID, newStatus) ==
    IF Read(store, saleID).err # NoErr THEN ErrNotFound
    ELSE IF InvalidTarget(newStatus) THEN ErrInvalidStatus
    ELSE IF store[saleID].status = newStatus THEN ErrInvalidTransition
    ELSE NoErr

\* UpdateSaleStatus: the error of its three checks, NoErr when the update goes on
UpdateCheck(store, saleID, newStatus) ==
    IF Read(store, saleID).err # NoErr THEN ErrNotFound
    ELSE IF InvalidTarget(newStatus) THEN ErrInvalidStatus
    ELSE IF NotPending(store[saleID]) THEN ErrInvalidTransition
    ELSE NoErr

\* variant: the user validated on every search, as CreateSale does
ValidatesUserAlways(userID) == TRUE

\* SearchSale: if userID != "", the user is validated
ValidatesUser(userID) == userID # ""

\* variant: the switch without its default case
InvalidFilterNever(status) == FALSE

\* SearchSale: the switch on a non-empty status
InvalidFilter(status) == status # "" /\ status \notin {"pending", "rejected", "approved"}

\* variant: the loop skips the sales that are no longer pending
RetainedPendingOnly(sale, userID, status) ==
    /\ ~(userID # "" /\ sale.userID # userID)
    /\ ~(status # "" /\ sale.status # status)
    /\ sale.status = "pending"

\* variant: the status filter left out of the loop
RetainedUserOnly(sale, userID, status) ==
    ~(userID # "" /\ sale.userID # userID)

\* SearchSale: the two filters of the loop
Retained(sale, userID, status) ==
    /\ ~(userID # "" /\ sale.userID # userID)
    /\ ~(status # "" /\ sale.status # status)

RECURSIVE SumAmount(_, _)
SumAmount(store, ids) ==
    IF ids = {} THEN 0
    ELSE LET i == CHOOSE x \in ids : TRUE
         IN store[i].amount + SumAmount(store, ids \ {i})

\* variant: no counter for the pending sales
MetadataNoPending(store, ids) ==
    [quantity |-> Cardinality(ids),
     approved |-> Cardinality({i \in ids : store[i].status = "approved"}),
     rejected |-> Cardinality({i \in ids : store[i].status = "rejected"}),
     pending |-> 0,
     totalAmount |-> SumAmount(store, ids)]

\* variant: quantity and totalAmount accumulated before the filters, over
\* every stored sale
MetadataBeforeFilter(store, ids) ==
    [quantity |-> Cardinality(DOMAIN store),
     approved |-> Cardinality({i \in ids : store[i].status = "approved"}),
     rejected |-> Cardinality({i \in ids : store[i].status = "rejected"}),
     pending |-> Cardinality({i \in ids : store[i].status = "pending"}),
     totalAmount |-> SumAmount(store, DOMAIN store)]

\* SearchSale: the metadata accumulated over the retained sales
Metadata(store, ids) ==
    [quantity |-> Cardinality(ids),
     approved |-> Cardinality({i \in ids : store[i].status = "approved"}),
     rejected |-> Cardinality({i \in ids : store[i].status = "rejected"}),
     pending |-> Cardinality({i \in ids : store[i].status = "pending"}),
     totalAmount |-> SumAmount(store, ids)]

\* SearchSale from the status switch on: what it returns over the store
Scan(store, userID, status) ==
    IF InvalidFilter(status)
    THEN [NoRes EXCEPT !.err = ErrInvalidStatus]
    ELSE LET kept == {i \in GetAll(store) : Retained(store[i], userID, status)}
         IN [NoRes EXCEPT !.sales = kept, !.meta = Metadata(store, kept)]

\* ------------------------------------------------------------------ handlers
\* the status codes of net/http the handlers answer with
StatusOK == 200
StatusCreated == 201
StatusBadRequest == 400
StatusNotFound == 404
StatusConflict == 409
StatusInternalServerError == 500

\* the requests GET /sales?... the callers send: the parameters are named as
\* the handler reads them ("id", "state") or, when I.documented, the request
\* has one parameter named as the integration test names it ("user_id" or
\* "status"); "" is an absent parameter
Queries(I) ==
    {[NoQuery EXCEPT !.id = u, !.state = s] : u \in I.users, s \in I.filter}
    \cup IF I.documented
         THEN {[NoQuery EXCEPT !.user_id = u] : u \in I.users \ {""}}
              \cup {[NoQuery EXCEPT !.status = s] : s \in I.filter \ {""}}
         ELSE {}

\* ctx.Query(key): the value of the parameter, "" when the request has none
Query(q, key) ==
    CASE key = "id" -> q.id
      [] key = "state" -> q.state
      [] key = "user_id" -> q.user_id
      [] key = "status" -> q.status
      [] OTHER -> ""

\* variant: the invalid filter recognised by comparing the error with the
\* variable ErrInvalidStatus, which the error built by fmt.Errorf never is
handlerGetSaleByIdentity(err) ==
    IF err = NoErr THEN StatusOK
    ELSE IF FALSE THEN StatusBadRequest
    ELSE StatusInternalServerError

\* handlerGetSale: the status of the response, by the text of SearchSale's error
handlerGetSale(err) ==
    IF err = NoErr THEN StatusOK
    ELSE IF err = <<"invalid status value">> THEN StatusBadRequest
    ELSE StatusInternalServerError

\* PatchSaleHandler: the status of the response, by UpdateSaleStatus's error
PatchSaleHandler(err) ==
    CASE err = NoErr -> StatusOK
      [] err = ErrNotFound -> StatusNotFound
      [] err = ErrInvalidStatus -> StatusBadRequest
      [] err = ErrInvalidTransition -> StatusConflict
      [] OTHER -> StatusInternalServerError

\* handleCreateSale: the status of the response, by the text of CreateSale's error
handleCreateSale(err) ==
    IF err = NoErr THEN StatusCreated
    ELSE IF err = <<"amount must be greater than zero">> \/ err = <<"user not found">>
    THEN StatusBadRequest
    ELSE StatusInternalServerError

\* the status of the response to the request that called op and got err; 0 for
\* a call made to the storage directly, which no handler answers
Respond(op, err) ==
    CASE op = "search" -> handlerGetSale(err)
      [] op = "update" -> PatchSaleHandler(err)
      [] op = "create" -> handleCreateSale(err)
      [] OTHER -> 0

\* ------------------------------------------------------------------ state
Init ==
    /\ m = <<>>
    /\ now = 0
    /\ pc = [p \in Procs |-> "idle"]
    /\ call = [p \in Procs |-> NoCall]
    /\ vresp = [p \in Procs |-> "none"]
    /\ tmp = [p \in Procs |-> 0]
    /\ res = [p \in Procs |-> NoRes]
    /\ pre = [p \in Procs |-> NoPre]
    /\ accepted = [i \in SaleIds |-> 0]
    /\ fresh = NilSale
    /\ updated = [i \in SaleIds |-> NoUpd]
    /\ wrote = {}
    /\ query = [p \in Procs |-> NoQuery]
    /\ code = [p \in Procs |-> 0]

\* a request reaches the service: the call c begins
Begin(p, c) ==
    /\ pc[p] = "idle"
    /\ call' = [call EXCEPT ![p] = c]
    /\ fresh' = NilSale

\* the request of p carries the query parameters q
Request(p, q) ==
    query' = [query EXCEPT ![p] = q]

\* the call goes on at label l
Goto(p, l) ==
    /\ pc' = [pc EXCEPT ![p] = l]
    /\ res' = res
    /\ code' = code

\* the call of p to op returns r, and the handler writes the response
Finish(p, op, r) ==
    /\ pc' = [pc EXCEPT ![p] = "done"]
    /\ res' = [res EXCEPT ![p] = r]
    /\ code' = [code EXCEPT ![p] = Respond(op, r.err)]

\* creations under way that will still need an id
Creating == {q \in Procs : pc[q] \in {"c_validate", "c_store"}}

\* the updates under way on the sale id: past the checks, not yet returned
Updating(id) ==
    {q \in Procs : pc[q] \in {"u_status", "u_time", "u_load", "u_store", "u_set"}
                   /\ call[q].saleID = id}

\* ------------------------------------------------------------------ CreateSale
\* the call enters CreateSale: the amount check, then the request to the user
\* service is sent
StartCreate(p, I) ==
    /\ \E in \in I.create :
        /\ Begin(p, [NoCall EXCEPT !.op = "create", !.userID = in[1], !.amount = in[2]])
        /\ Request(p, NoQuery)
        /\ IF InvalidAmount(in[2])
           THEN Finish(p, "create", [NoRes EXCEPT !.err = ErrInvalidAmount])
           ELSE /\ Cardinality(DOMAIN m) + Cardinality(Creating) < MaxSales
                /\ Goto(p, "c_validate")
    /\ UNCHANGED <<m, now, vresp, tmp, pre, accepted, updated, wrote>>

\* the user service answers (or the request fails)
CreateValidate(p, I) ==
    /\ pc[p] = "c_validate"
    /\ \E r \in I.answers :
        /\ vresp' = [vresp EXCEPT ![p] = r]
        /\ IF GetUserByID(r).err # NoErr
           THEN Finish(p, "create", [NoRes EXCEPT !.err = CreateUserErr(GetUserByID(r).err)])
           ELSE Goto(p, "c_store")
    /\ UNCHANGED <<m, now, call, tmp, pre, accepted, fresh, updated, wrote, query>>

\* the sale is built (uuid, random status, two clock readings) and stored
CreateStore(p) ==
    /\ pc[p] = "c_store"
    /\ \E st \in getRandomStatus, t1 \in Now(now) :
        \E t2 \in Now(t1) :
            LET sale == NewSale(NewString(m), call[p].userID, call[p].amount, st, t1, t2)
                r == Set(m, sale.id, sale)
            IN /\ m' = r.m
               /\ now' = t2
               /\ IF r.err # NoErr
                  THEN /\ Finish(p, "create", [NoRes EXCEPT !.err = Wrap("failed to save sale", r.err)])
                       /\ UNCHANGED <<fresh, wrote>>
                  ELSE /\ Finish(p, "create", [NoRes EXCEPT !.sale = sale.id])
                       /\ fresh' = sale.id
                       /\ wrote' = wrote \cup {sale.id}
    /\ UNCHANGED <<call, vresp, tmp, pre, accepted, updated, query>>

\* ------------------------------------------------------------------ UpdateSaleStatus
\* the call enters UpdateSaleStatus: Read and the checks of newStatus and of
\* the stored status
StartUpdate(p, I) ==
    /\ \E id \in SaleIds, s \in I.target :
        /\ Begin(p, [NoCall EXCEPT !.op = "update", !.saleID = id, !.status = s])
        /\ Request(p, NoQuery)
        /\ pre' = [pre EXCEPT ![p] =
                     IF id \in DOMAIN m
                     THEN [status |-> m[id].status, version |-> m[id].version,
                           updatedAt |-> m[id].updatedAt,
                           direct |-> fresh = id]
                     ELSE NoPre]
        /\ IF UpdateCheck(m, id, s) # NoErr
           THEN Finish(p, "update", [NoRes EXCEPT !.err = UpdateCheck(m, id, s)])
           ELSE Goto(p, "u_status")
    /\ UNCHANGED <<m, now, vresp, tmp, accepted, updated, wrote>>

\* variant: the new status written to every stored sale
UpdStatusEverySale(p) ==
    /\ pc[p] = "u_status"
    /\ m' = [k \in DOMAIN m |-> [m[k] EXCEPT !.status = call[p].status]]
    /\ pc' = [pc EXCEPT ![p] = "u_time"]
    /\ UNCHANGED <<now, call, vresp, tmp, res, code, pre, accepted, fresh, updated, wrote, query>>

\* sale.Status = newStatus
UpdStatus(p) ==
    /\ pc[p] = "u_status"
    /\ m' = [m EXCEPT ![call[p].saleID].status = call[p].status]
    /\ pc' = [pc EXCEPT ![p] = "u_time"]
    /\ UNCHANGED <<now, call, vresp, tmp, res, code, pre, accepted, fresh, updated, wrote, query>>

\* sale.UpdatedAt = time.Now()
UpdTime(p) ==
    /\ pc[p] = "u_time"
    /\ \E t \in Now(now) :
        /\ m' = [m EXCEPT ![call[p].saleID].updatedAt = t]
        /\ now' = t
    /\ pc' = [pc EXCEPT ![p] = "u_load"]
    /\ UNCHANGED <<call, vresp, tmp, res, code, pre, accepted, fresh, updated, wrote, query>>

\* sale.Version++, the load
UpdLoad(p) ==
    /\ pc[p] = "u_load"
    /\ tmp' = [tmp EXCEPT ![p] = m[call[p].saleID].version]
    /\ pc' = [pc EXCEPT ![p] = "u_store"]
    /\ UNCHANGED <<m, now, call, vresp, res, code, pre, accepted, fresh, updated, wrote, query>>

\* sale.Version++, the store
UpdStore(p) ==
    /\ pc[p] = "u_store"
    /\ m' = [m EXCEPT ![call[p].saleID].version = tmp[p] + 1]
    /\ tmp' = [tmp EXCEPT ![p] = 0]
    /\ pc' = [pc EXCEPT ![p] = "u_set"]
    /\ UNCHANGED <<now, call, vresp, res, code, pre, accepted, fresh, updated, wrote, query>>

\* storage.Set(sale) and the return
UpdSet(p) ==
    /\ pc[p] = "u_set"
    /\ LET id == call[p].saleID
           r == Set(m, m[id].id, m[id])
       IN /\ m' = r.m
          /\ IF r.err # NoErr
             THEN /\ Finish(p, "update", [NoRes EXCEPT !.err = r.err])
                  /\ UNCHANGED <<accepted, updated, wrote>>
             ELSE /\ Finish(p, "update", [NoRes EXCEPT !.sale = id])
                  /\ accepted' = [accepted EXCEPT ![id] = @ + 1]
                  /\ updated' = [updated EXCEPT ![id] = [status |-> r.m[id].status,
                                                          version |-> r.m[id].version]]
                  /\ wrote' = wrote \cup {m[id].id}
    /\ UNCHANGED <<now, call, vresp, tmp, pre, fresh, query>>

\* ------------------------------------------------------------------ SearchSale
\* variant: the loop filters the map in place, dropping the sales it skips
StartSearchInPlace(p, I) ==
    /\ \E q \in Queries(I) :
        LET u == Query(q, "id")
            s == Query(q, "state")
        IN
        /\ Begin(p, [NoCall EXCEPT !.op = "search", !.userID = u, !.status = s])
        /\ Request(p, q)
        /\ IF ValidatesUser(u)
           THEN Goto(p, "s_validate") /\ m' = m
           ELSE /\ Finish(p, "search", Scan(m, u, s))
                /\ m' = [k \in Scan(m, u, s).sales |-> m[k]]
    /\ UNCHANGED <<now, vresp, tmp, pre, accepted, updated, wrote>>

\* handlerGetSale reads the query parameters "id" and "state" and calls
\* SearchSale with them: with a userID the request to the user service is sent,
\* without one the search runs
StartSearch(p, I) ==
    /\ \E q \in Queries(I) :
        LET u == Query(q, "id")
            s == Query(q, "state")
        IN
        /\ Begin(p, [NoCall EXCEPT !.op = "search", !.userID = u, !.status = s])
        /\ Request(p, q)
        /\ IF ValidatesUser(u)
           THEN Goto(p, "s_validate")
           ELSE Finish(p, "search", Scan(m, u, s))
    /\ UNCHANGED <<m, now, vresp, tmp, pre, accepted, updated, wrote>>

\* the user service answers (or the request fails), and the search runs
SearchValidate(p, I) ==
    /\ pc[p] = "s_validate"
    /\ \E r \in I.answers :
        /\ vresp' = [vresp EXCEPT ![p] = r]
        /\ IF SearchUserErr(GetUserByID(r)) # NoErr
           THEN Finish(p, "search", [NoRes EXCEPT !.err = SearchUserErr(GetUserByID(r))])
           ELSE Finish(p, "search", Scan(m, call[p].userID, call[p].status))
    /\ UNCHANGED <<m, now, call, tmp, pre, accepted, fresh, updated, wrote, query>>

\* ------------------------------------------------------------------ responses
\* the handler has written the response: the goroutine is free again
Return(p) ==
    /\ pc[p] = "done"
    /\ query' = [query EXCEPT ![p] = NoQuery]
    /\ code' = [code EXCEPT ![p] = 0]
    /\ pc' = [pc EXCEPT ![p] = "idle"]
    /\ call' = [call EXCEPT ![p] = NoCall]
    /\ vresp' = [vresp EXCEPT ![p] = "none"]
    /\ res' = [res EXCEPT ![p] = NoRes]
    /\ pre' = [pre EXCEPT ![p] = NoPre]
    /\ UNCHANGED <<m, now, tmp, accepted, fresh, updated, wrote>>

\* ------------------------------------------------------------------ specifications
Step(p, I) ==
    \/ StartCreate(p, I)
    \/ CreateValidate(p, I)
    \/ CreateStore(p)
    \/ StartUpdate(p, I)
    \/ UpdStatus(p)
    \/ UpdTime(p)
    \/ UpdLoad(p)
    \/ UpdStore(p)
    \/ UpdSet(p)
    \/ StartSearch(p, I)
    \/ SearchValidate(p, I)
    \/ Return(p)

\* requests are served concurrently, one goroutine each, with no lock
Next == \E p \in Procs : Step(p, ConcInputs)

Spec == Init /\ [][Next]_vars

\* requests that arrive one after the other: each is served to its end before
\* the next arrives (goroutine 1 stands for whichever goroutine serves it)
NextSeq == Step(1, SeqInputs)

SpecSeq == Init /\ [][NextSeq]_vars

\* the steps a request goroutine takes on its own, once it is past the wait
\* for the user service
Progress(p) ==
    \/ CreateStore(p)
    \/ UpdStatus(p)
    \/ UpdTime(p)
    \/ UpdLoad(p)
    \/ UpdStore(p)
    \/ UpdSet(p)

\* requests served one at a time by a goroutine that the scheduler keeps
\* running; the answer of the user service is awaited with no timeout and no
\* context (resty.New(), client.R().Get(url)), so nothing forces the steps
\* CreateValidate and SearchValidate, in which the answer arrives
SpecLive == Init /\ [][NextSeq]_vars /\ WF_vars(Progress(1))

\* ------------------------------------------------------------------ LocalStorage alone
\* The storage driven directly through the Storage interface, one call at a
\* time, with sales of every id, the empty id included.
StoreSales ==
    {NewSale(id, u, 10, st, 0, 0) :
        id \in {NilSale} \cup SaleIds, u \in {"u1", "u2"}, st \in {"pending", "approved"}}

\* the sale passed to the Set call c
ArgSale(c) == NewSale(c.saleID, c.userID, c.amount, c.status, 0, 0)

\* Set(sale)
StoreSet(p) ==
    /\ \E sale \in StoreSales :
        LET r == Set(m, sale.id, sale)
        IN /\ Begin(p, [op |-> "set", userID |-> sale.userID, amount |-> sale.amount,
                         saleID |-> sale.id, status |-> sale.status])
           /\ Request(p, NoQuery)
           /\ m' = r.m
           /\ Finish(p, "set", [NoRes EXCEPT !.err = r.err])
           /\ wrote' = IF r.err = NoErr THEN wrote \cup {sale.id} ELSE wrote
    /\ UNCHANGED <<now, vresp, tmp, pre, accepted, updated>>

\* Read(id)
StoreRead(p) ==
    /\ \E id \in {NilSale} \cup SaleIds :
        /\ Begin(p, [NoCall EXCEPT !.op = "read", !.saleID = id])
        /\ Request(p, NoQuery)
        /\ Finish(p, "read", [NoRes EXCEPT !.err = Read(m, id).err, !.sale = Read(m, id).sale])
    /\ UNCHANGED <<m, now, vresp, tmp, pre, accepted, updated, wrote>>

\* GetAll()
StoreGetAll(p) ==
    /\ Begin(p, [NoCall EXCEPT !.op = "getall"])
    /\ Request(p, NoQuery)
    /\ Finish(p, "getall", [NoRes EXCEPT !.sales = GetAll(m)])
    /\ UNCHANGED <<m, now, vresp, tmp, pre, accepted, updated, wrote>>

NextStore ==
    \/ StoreSet(1)
    \/ StoreRead(1)
    \/ StoreGetAll(1)
    \/ Return(1)

SpecStore == Init /\ [][NextStore]_vars

\* ------------------------------------------------------------------ vocabulary
\* the calls that have returned
Returned(p, op) == pc[p] = "done" /\ call[p].op = op

\* the error kinds of the specification, by the text the caller receives
IsInvalidAmount(err) == err = ErrInvalidAmount
IsInvalidStatus(err) == err = ErrInvalidStatus
IsInvalidTransition(err) == err = ErrInvalidTransition
IsUserNotFound(err) == err = ErrUserNotFound \/ err = <<"usuario no encontrado">>
IsUserValidationError(err) == err # NoErr /\ Head(err) = "error validating user"

\* ------------------------------------------------------------------ C1
\* C1: along every sequence of calls, overlapping or not, a step that changes
\* the status of a stored sale changes it from pending to approved or to
\* rejected; hence an approved or rejected sale keeps its status for ever.
C1_StatusOneWay ==
    [][\A id \in DOMAIN m :
          m'[id].status # m[id].status =>
              /\ m[id].status = "pending"
              /\ m'[id].status \in {"approved", "rejected"}]_vars

\* ------------------------------------------------------------------ C2
\* C2: of the UpdateSaleStatus calls on one sale, overlapping or not, at most
\* one returns success (the sale is transitioned once).
C2_AtMostOneAccepted == \A id \in SaleIds : accepted[id] <= 1

\* ------------------------------------------------------------------ C3
\* C3: every stored sale on which no update is under way has version >= 1 and
\* version = 1 + the number of UpdateSaleStatus calls on it that returned
\* success.
C3_VersionCountsAccepted ==
    \A id \in DOMAIN m :
        Updating(id) = {} =>
            /\ m[id].version >= 1
            /\ m[id].version = 1 + accepted[id]

\* ------------------------------------------------------------------ C4
\* C4: UpdateSaleStatus(id, s) with s approved or rejected, on a stored sale
\* found pending, returns success and the stored sale, whose status is s and
\* whose version is one more than before the call.
C4_UpdatePending ==
    \A p \in Procs :
        (/\ Returned(p, "update")
         /\ pre[p].status = "pending"
         /\ call[p].status \in {"approved", "rejected"})
        => /\ res[p].err = NoErr
           /\ res[p].sale = call[p].saleID
           /\ m[call[p].saleID].status = call[p].status
           /\ m[call[p].saleID].version = pre[p].version + 1

\* a pending sale was rejected by an update that returned it at version 2
C4_Witness ==
    /\ Returned(1, "update")
    /\ pre[1].status = "pending"
    /\ call[1].status = "rejected"
    /\ res[1].sale = call[1].saleID
    /\ m[call[1].saleID].version = 2

\* ------------------------------------------------------------------ C5
\* C5, as claimed: UpdateSaleStatus on a stored sale found approved or rejected
\* fails with InvalidTransition, whatever newStatus is, and the sale's status,
\* version and updatedAt are as before.
C5_Original ==
    \A p \in Procs :
        (/\ Returned(p, "update")
         /\ pre[p].status \in {"approved", "rejected"})
        => /\ IsInvalidTransition(res[p].err)
           /\ m[call[p].saleID].status = pre[p].status
           /\ m[call[p].saleID].version = pre[p].version
           /\ m[call[p].saleID].updatedAt = pre[p].updatedAt

\* C5, amended: UpdateSaleStatus with newStatus approved or rejected, on a
\* stored sale found approved or rejected, fails with InvalidTransition, and
\* the sale's status, version and updatedAt are as before.
C5_RefusedUnchanged ==
    \A p \in Procs :
        (/\ Returned(p, "update")
         /\ pre[p].status \in {"approved", "rejected"}
         /\ call[p].status \in {"approved", "rejected"})
        => /\ IsInvalidTransition(res[p].err)
           /\ m[call[p].saleID].status = pre[p].status
           /\ m[call[p].saleID].version = pre[p].version
           /\ m[call[p].saleID].updatedAt = pre[p].updatedAt

\* an approved sale at version 2 was asked to become rejected, and refused
C5_Witness ==
    /\ Returned(1, "update")
    /\ pre[1].status = "approved"
    /\ pre[1].version = 2
    /\ call[1].status = "rejected"
    /\ IsInvalidTransition(res[1].err)

\* ------------------------------------------------------------------ C6
\* C6, as claimed: UpdateSaleStatus with newStatus "pending" fails with
\* InvalidStatus, whatever the state (stored sale or not).
C6_Original ==
    \A p \in Procs :
        (Returned(p, "update") /\ call[p].status = "pending")
        => IsInvalidStatus(res[p].err)

\* C6, amended: UpdateSaleStatus with newStatus "pending" on a stored sale
\* fails with InvalidStatus whatever the sale's status, and leaves the sale as
\* it was; on an id that is not stored it fails with NotFound.
C6_PendingTarget ==
    \A p \in Procs :
        (Returned(p, "update") /\ call[p].status = "pending")
        => IF pre[p] = NoPre
           THEN res[p].err = ErrNotFound /\ call[p].saleID \notin DOMAIN m
           ELSE /\ IsInvalidStatus(res[p].err)
                /\ m[call[p].saleID].status = pre[p].status
                /\ m[call[p].saleID].version = pre[p].version

\* a pending sale was asked to become pending, and the call failed with
\* InvalidStatus
C6_Witness ==
    /\ Returned(1, "update")
    /\ call[1].status = "pending"
    /\ pre[1].status = "pending"
    /\ IsInvalidStatus(res[1].err)

\* ------------------------------------------------------------------ C7
\* C7: UpdateSaleStatus(id, "approved") called directly after the CreateSale
\* that created id returns success and the sale, at version 2 and approved.
C7_CreateThenApprove ==
    \A p \in Procs :
        (/\ Returned(p, "update")
         /\ call[p].status = "approved"
         /\ pre[p].direct)
        => /\ res[p].err = NoErr
           /\ res[p].sale = call[p].saleID
           /\ m[call[p].saleID].version = 2
           /\ m[call[p].saleID].status = "approved"

\* ------------------------------------------------------------------ C8
\* C8: a CreateSale with amount <= 0 returns at once with InvalidAmount and no
\* sale, without asking the user service and without writing to storage.
C8_InvalidAmount ==
    [][\A p \in Procs :
          (pc[p] = "idle" /\ call'[p].op = "create" /\ call'[p].amount <= 0)
          => /\ pc'[p] = "done"
             /\ IsInvalidAmount(res'[p].err)
             /\ res'[p].sale = NilSale
             /\ vresp'[p] = "none"
             /\ m' = m]_vars

\* a CreateSale with a negative amount failed, with a sale already stored
C8_Witness ==
    /\ Returned(1, "create")
    /\ call[1].amount < 0
    /\ IsInvalidAmount(res[1].err)
    /\ vresp[1] = "none"
    /\ DOMAIN m # {}

\* ------------------------------------------------------------------ C9
\* C9: a CreateSale with a positive amount to which the user service answers
\* not found returns "user not found" (not the validation error) and no sale,
\* and no step of the call writes to storage.
C9_CreateUserNotFound ==
    [][\A p \in Procs :
          /\ (pc[p] = "idle" /\ call'[p].op = "create") => m' = m
          /\ (pc[p] = "c_validate" /\ vresp'[p] = "notfound")
             => /\ pc'[p] = "done"
                /\ res'[p].err = ErrUserNotFound
                /\ ~IsUserValidationError(res'[p].err)
                /\ res'[p].sale = NilSale
                /\ m' = m]_vars

\* a CreateSale of user u2 got not found from the user service and failed with
\* "user not found", with a sale already stored
C9_Witness ==
    /\ Returned(1, "create")
    /\ call[1].userID = "u2"
    /\ vresp[1] = "notfound"
    /\ res[1].err = ErrUserNotFound
    /\ DOMAIN m # {}

\* ------------------------------------------------------------------ C10
\* C10: a SearchSale with a non-empty userID to which the user service answers
\* not found fails with UserNotFound, not with the validation error, returns
\* no sales and leaves storage as it was.
C10_SearchUserNotFound ==
    [][\A p \in Procs :
          (pc[p] = "s_validate" /\ vresp'[p] = "notfound")
          => /\ pc'[p] = "done"
             /\ IsUserNotFound(res'[p].err)
             /\ ~IsUserValidationError(res'[p].err)
             /\ res'[p].sales = {}
             /\ m' = m]_vars

\* ------------------------------------------------------------------ C11
\* C11: a CreateSale writes to storage only when the user service resolved the
\* user within that call; and when the user service fails otherwise than with
\* a definitive not-found (transport error, unexpected status), the call ends
\* with the validation error, not with "user not found", and storage is as it
\* was.
C11_CreateNeedsUser ==
    [][\A p \in Procs :
          /\ (call[p].op = "create" /\ m' # m) => vresp[p] = "ok"
          /\ (pc[p] = "c_validate" /\ vresp'[p] \notin {"ok", "notfound"})
             => /\ pc'[p] = "done"
                /\ IsUserValidationError(res'[p].err)
                /\ ~IsUserNotFound(res'[p].err)
                /\ res'[p].sale = NilSale
                /\ m' = m]_vars

\* ------------------------------------------------------------------ C12
\* C12: a CreateSale that returned success returned a sale with a non-empty
\* id, the userID and amount of the call, version 1 and one of the three
\* statuses, and Read of that id returns that sale.
C12_CreatedSale ==
    \A p \in Procs :
        (Returned(p, "create") /\ res[p].err = NoErr)
        => /\ res[p].sale # NilSale
           /\ Read(m, res[p].sale) = [err |-> NoErr, sale |-> res[p].sale]
           /\ m[res[p].sale].id = res[p].sale
           /\ m[res[p].sale].userID = call[p].userID
           /\ m[res[p].sale].amount = call[p].amount
           /\ m[res[p].sale].version = 1
           /\ m[res[p].sale].status \in {"pending", "approved", "rejected"}

\* the second sale was created, for user u2 with amount 25, and is stored
C12_Witness ==
    /\ Returned(1, "create")
    /\ res[1].err = NoErr
    /\ res[1].sale = 2
    /\ call[1].userID = "u2"
    /\ m[2].amount = 25
    /\ m[2].version = 1

\* ------------------------------------------------------------------ C13
\* the sum of the stored amounts of the sales ids, taken in the order of the
\* identifiers up to n
RECURSIVE AmountUpTo(_, _)
AmountUpTo(ids, n) ==
    IF n = 0 THEN 0
    ELSE (IF n \in ids THEN m[n].amount ELSE 0) + AmountUpTo(ids, n - 1)

\* C13: a SearchSale with empty userID and empty status returns success and
\* every stored sale, with quantity the number of stored sales, totalAmount
\* the sum of their amounts, and approved + rejected + pending = quantity.
C13_SearchAll ==
    \A p \in Procs :
        (Returned(p, "search") /\ call[p].userID = "" /\ call[p].status = "")
        => /\ res[p].err = NoErr
           /\ res[p].sales = DOMAIN m
           /\ res[p].meta.quantity = Cardinality(DOMAIN m)
           /\ res[p].meta.totalAmount = AmountUpTo(DOMAIN m, MaxSales)
           /\ res[p].meta.approved + res[p].meta.rejected + res[p].meta.pending
                = res[p].meta.quantity

\* an unfiltered search returned both stored sales, amounts 10 and 25
C13_Witness ==
    /\ Returned(1, "search")
    /\ call[1].userID = ""
    /\ call[1].status = ""
    /\ Cardinality(res[1].sales) = 2
    /\ res[1].meta.quantity = 2
    /\ res[1].meta.totalAmount = 35

\* ------------------------------------------------------------------ C14
\* C14: a SearchSale(userID, status) that returned success returned exactly
\* the stored sales with (userID empty or the sale's userID = userID) and
\* (status empty or the sale's status = status).
C14_SearchExact ==
    \A p \in Procs :
        (Returned(p, "search") /\ res[p].err = NoErr)
        => res[p].sales =
             {i \in DOMAIN m :
                /\ (call[p].userID = "" \/ m[i].userID = call[p].userID)
                /\ (call[p].status = "" \/ m[i].status = call[p].status)}

\* a search for the approved sales of u2 returned sale 2 and left out sale 1,
\* a sale of u2 as well
C14_Witness ==
    /\ Returned(1, "search")
    /\ res[1].err = NoErr
    /\ call[1].userID = "u2"
    /\ call[1].status = "approved"
    /\ DOMAIN m = {1, 2}
    /\ m[1].userID = "u2"
    /\ res[1].sales = {2}

\* ------------------------------------------------------------------ C15
\* C15: for every SearchSale that returned success, quantity is the number of
\* returned sales, each status counter is the number of returned sales with
\* that status (so the three add up to quantity), totalAmount is the sum of
\* the returned amounts, and with nothing returned every field is zero.
C15_MetadataOfReturned ==
    \A p \in Procs :
        (Returned(p, "search") /\ res[p].err = NoErr)
        => /\ res[p].meta.quantity = Cardinality(res[p].sales)
           /\ \A st \in {"approved", "rejected", "pending"} :
                res[p].meta[st] = Cardinality({i \in res[p].sales : m[i].status = st})
           /\ res[p].meta.approved + res[p].meta.rejected + res[p].meta.pending
                = res[p].meta.quantity
           /\ res[p].meta.totalAmount = AmountUpTo(res[p].sales, MaxSales)
           /\ res[p].sales = {} => res[p].meta = NoMeta

\* a search by status returned one of the two stored sales, counted once,
\* under rejected, with its amount
C15_Witness ==
    /\ Returned(1, "search")
    /\ res[1].err = NoErr
    /\ call[1].status = "rejected"
    /\ DOMAIN m = {1, 2}
    /\ res[1].sales = {2}
    /\ res[1].meta = [quantity |-> 1, approved |-> 0, rejected |-> 1, pending |-> 0,
                      totalAmount |-> m[2].amount]

\* ------------------------------------------------------------------ C16
\* a status filter that is given and is none of the three statuses
UnknownFilter(p) ==
    call[p].status # "" /\ call[p].status \notin {"pending", "approved", "rejected"}

\* C16, as claimed: a SearchSale whose status is non-empty and none of pending,
\* approved, rejected fails with InvalidStatus and returns no sales, whatever
\* its userID.
C16_Original ==
    \A p \in Procs :
        (Returned(p, "search") /\ UnknownFilter(p))
        => /\ IsInvalidStatus(res[p].err)
           /\ res[p].sales = {}

\* C16, amended: such a SearchSale fails with InvalidStatus and returns no
\* sales and zero metadata when its userID is empty or the user service
\* resolved it; when the user service did not, it fails with the error of the
\* user validation, again with no sales.
C16_InvalidFilter ==
    \A p \in Procs :
        (Returned(p, "search") /\ UnknownFilter(p))
        => /\ res[p].sales = {}
           /\ res[p].meta = NoMeta
           /\ IF call[p].userID = "" \/ vresp[p] = "ok"
              THEN IsInvalidStatus(res[p].err)
              ELSE res[p].err # NoErr /\ ~IsInvalidStatus(res[p].err)

\* a search of the sales of u1 with status "unknown", u1 resolved, failed with
\* InvalidStatus although sales are stored
C16_Witness ==
    /\ Returned(1, "search")
    /\ call[1].userID = "u1"
    /\ call[1].status = "unknown"
    /\ vresp[1] = "ok"
    /\ IsInvalidStatus(res[1].err)
    /\ DOMAIN m # {}

\* ------------------------------------------------------------------ C17
\* C17: a SearchSale with an empty userID returns in the step that starts it,
\* without a request to the user service, and what it returns is a function of
\* the store and the status filter alone.
C17_NoUserNoValidation ==
    [][\A p \in Procs :
          (pc[p] = "idle" /\ call'[p].op = "search" /\ call'[p].userID = "")
          => /\ pc'[p] = "done"
             /\ vresp'[p] = "none"
             /\ res'[p] = Scan(m, "", call'[p].status)
             /\ m' = m]_vars

\* a search by status alone returned a sale without the user service being
\* asked
C17_Witness ==
    /\ Returned(1, "search")
    /\ call[1].userID = ""
    /\ call[1].status = "approved"
    /\ vresp[1] = "none"
    /\ res[1].err = NoErr
    /\ res[1].sales # {}

\* ------------------------------------------------------------------ C18
\* the filters of the search of p match the sale id as its latest successful
\* update returned it
MatchesUpdated(p, id) ==
    /\ call[p].userID = "" \/ m[id].userID = call[p].userID
    /\ call[p].status = "" \/ updated[id].status = call[p].status

\* C18: a SearchSale that returns success after a successful UpdateSaleStatus
\* of a sale, with filters that match the sale, returns that sale, stored with
\* the status and version the update returned, and counts it under that
\* status.
C18_SearchReflectsUpdate ==
    \A p \in Procs :
        (Returned(p, "search") /\ res[p].err = NoErr)
        => \A id \in DOMAIN m :
             (accepted[id] >= 1 /\ MatchesUpdated(p, id))
             => /\ id \in res[p].sales
                /\ m[id].status = updated[id].status
                /\ m[id].version = updated[id].version
                /\ res[p].meta[updated[id].status] >= 1
                /\ \A st \in Statuses \ {updated[id].status} :
                     res[p].meta[st] =
                       Cardinality({i \in res[p].sales \ {id} : m[i].status = st})

\* sale 1 of u1 was updated to rejected, and a later search of the sales of u1
\* returned it, at version 2, counted as rejected
C18_Witness ==
    /\ Returned(1, "search")
    /\ res[1].err = NoErr
    /\ call[1].userID = "u1"
    /\ accepted[1] = 1
    /\ updated[1] = [status |-> "rejected", version |-> 2]
    /\ 1 \in res[1].sales
    /\ m[1].version = 2
    /\ res[1].meta.rejected >= 1

\* ------------------------------------------------------------------ C19
\* C19: when an UpdateSaleStatus has returned success, the sale's updatedAt is
\* strictly later than its createdAt and strictly later than its updatedAt
\* before the call.
C19_UpdatedAtStrictlyLater ==
    \A p \in Procs :
        (Returned(p, "update") /\ res[p].err = NoErr)
        => /\ m[call[p].saleID].updatedAt > m[call[p].saleID].createdAt
           /\ m[call[p].saleID].updatedAt > pre[p].updatedAt

\* ------------------------------------------------------------------ C20
\* C20: the sale of a CreateSale that returned success has createdAt =
\* updatedAt, and every stored sale at version 1 has updatedAt = createdAt.
C20_CreatedAtIsUpdatedAt ==
    /\ \A p \in Procs :
         (Returned(p, "create") /\ res[p].err = NoErr)
         => m[res[p].sale].createdAt = m[res[p].sale].updatedAt
    /\ \A id \in DOMAIN m :
         m[id].version = 1 => m[id].updatedAt = m[id].createdAt

\* ------------------------------------------------------------------ C21
\* C21: a Set with a sale whose id is empty returns the empty-id error and
\* leaves the store as it was; a Set with a non-empty id returns nil, and the
\* store afterwards holds the given sale under that id and every other record
\* as before.
C21_Set ==
    [][\A p \in Procs :
          (pc[p] = "idle" /\ call'[p].op = "set")
          => LET sale == ArgSale(call'[p])
             IN IF sale.id = NilSale
                THEN res'[p].err = ErrEmptyID /\ m' = m
                ELSE /\ res'[p].err = NoErr
                     /\ DOMAIN m' = DOMAIN m \cup {sale.id}
                     /\ m'[sale.id] = sale
                     /\ \A k \in DOMAIN m \ {sale.id} : m'[k] = m[k]]_vars

\* a Set with an empty id failed, on a store that holds a record
C21_Witness ==
    /\ Returned(1, "set")
    /\ call[1].saleID = NilSale
    /\ res[1].err = ErrEmptyID
    /\ DOMAIN m # {}

\* ------------------------------------------------------------------ C22
\* C22: after a Set(sale) that returned nil, Read(sale.id) returns that sale
\* and GetAll holds it exactly once; and in every state Read(id) fails with
\* NotFound exactly for the ids with which no Set has returned nil.
C22_RoundTrip ==
    /\ \A p \in Procs :
         (Returned(p, "set") /\ res[p].err = NoErr)
         => LET id == call[p].saleID
            IN /\ Read(m, id) = [err |-> NoErr, sale |-> id]
               /\ m[Read(m, id).sale] = ArgSale(call[p])
               /\ Cardinality({k \in GetAll(m) : m[k].id = id}) = 1
    /\ \A id \in {NilSale} \cup SaleIds :
         Read(m, id).err = ErrNotFound <=> id \notin wrote
    /\ \A p \in Procs :
         Returned(p, "read")
         => /\ res[p].err = ErrNotFound <=> call[p].saleID \notin wrote
            /\ res[p].err \in {NoErr, ErrNotFound}
            /\ res[p].err = NoErr => res[p].sale = call[p].saleID

\* a second Set under id 1 replaced the record, with another record stored
C22_Witness ==
    /\ Returned(1, "set")
    /\ res[1].err = NoErr
    /\ call[1].saleID = 1
    /\ call[1].status = "approved"
    /\ m[1].status = "approved"
    /\ wrote = {1, 2}

\* ------------------------------------------------------------------ C23
\* C23: in every reachable state of the storage, whatever sales its callers
\* pass to Set, every stored record has a non-empty id and is stored under the
\* key equal to its id.
C23_KeyIsId ==
    \A k \in DOMAIN m :
        /\ k # NilSale
        /\ m[k].id # NilSale
        /\ m[k].id = k

\* a Set with an empty id was attempted on a store that holds two records
C23_Witness ==
    /\ Returned(1, "set")
    /\ call[1].saleID = NilSale
    /\ DOMAIN m = {1, 2}
    /\ m[2].id = 2

\* ------------------------------------------------------------------ C24
\* C24: no step of an UpdateSaleStatus call, successful or not, adds or
\* removes a stored sale, changes the id, userID, amount or createdAt of its
\* target, or changes any field of another stored sale.
C24_UpdateFrame ==
    [][\A p \in Procs :
          call'[p].op = "update"
          => /\ DOMAIN m' = DOMAIN m
             /\ \A id \in DOMAIN m :
                  /\ m'[id].id = m[id].id
                  /\ m'[id].userID = m[id].userID
                  /\ m'[id].amount = m[id].amount
                  /\ m'[id].createdAt = m[id].createdAt
                  /\ id # call'[p].saleID => m'[id] = m[id]]_vars

\* sale 2 was updated to approved while sale 1, stored too, stays pending
C24_Witness ==
    /\ Returned(1, "update")
    /\ res[1].err = NoErr
    /\ call[1].saleID = 2
    /\ m[2].status = "approved"
    /\ m[2].version = 2
    /\ m[1].status = "pending"

\* ------------------------------------------------------------------ C25
\* C25: every call of CreateSale, UpdateSaleStatus and SearchSale that has
\* begun eventually returns, also when the user service never answers.
C25_EveryCallReturns ==
    \A p \in Procs : (pc[p] \notin {"idle", "done"}) ~> (pc[p] = "done")

\* ------------------------------------------------------------------ C26
\* C26: an UpdateSaleStatus of an id that is not stored fails with NotFound
\* whatever newStatus is; one of a stored sale that is not pending, with a
\* newStatus other than approved and rejected, fails with InvalidStatus, not
\* InvalidTransition; and in both cases the call returns at once and storage
\* is as it was.
C26_CheckOrder ==
    [][\A p \in Procs :
          (pc[p] = "idle" /\ call'[p].op = "update")
          => LET id == call'[p].saleID
                 s == call'[p].status
             IN /\ id \notin DOMAIN m
                   => /\ pc'[p] = "done"
                      /\ res'[p].err = ErrNotFound
                      /\ res'[p].sale = NilSale
                      /\ m' = m
                /\ (/\ id \in DOMAIN m
                    /\ m[id].status # "pending"
                    /\ s \notin {"approved", "rejected"})
                   => /\ pc'[p] = "done"
                      /\ IsInvalidStatus(res'[p].err)
                      /\ ~IsInvalidTransition(res'[p].err)
                      /\ res'[p].sale = NilSale
                      /\ m' = m]_vars

\* a rejected sale was asked to become "unknown", and the call failed with
\* InvalidStatus
C26_Witness ==
    /\ Returned(1, "update")
    /\ pre[1].status = "rejected"
    /\ call[1].status = "unknown"
    /\ IsInvalidStatus(res[1].err)

\* ------------------------------------------------------------------ C27
\* C27: no step removes a stored id; and the step in which a CreateSale stores
\* its sale adds exactly one id, which was not stored before, and leaves every
\* record stored before as it was.
C27_FreshIdNoRemoval ==
    [][/\ DOMAIN m \subseteq DOMAIN m'
       /\ \A id \in DOMAIN m : Read(m', id).err = NoErr
       /\ \A p \in Procs :
            (pc[p] = "c_store" /\ pc'[p] = "done" /\ res'[p].err = NoErr)
            => /\ res'[p].sale \notin DOMAIN m
               /\ DOMAIN m' = DOMAIN m \cup {res'[p].sale}
               /\ Cardinality(DOMAIN m') = Cardinality(DOMAIN m) + 1
               /\ \A id \in DOMAIN m : m'[id] = m[id]]_vars

\* a second sale was created while the first, already updated, is still stored
C27_Witness ==
    /\ Returned(1, "create")
    /\ res[1].sale = 2
    /\ DOMAIN m = {1, 2}
    /\ accepted[1] = 1
    /\ m[1].version = 2

\* ------------------------------------------------------------------ C28
\* C28: a SearchSale that returns a sale while one UpdateSaleStatus of that
\* sale is under way found the sale either as it was before the update
\* (status, version and updatedAt) or with the new status and the version
\* raised by one, never with the new status and the old version.
C28_SearchSeesWholeUpdate ==
    [][\A p \in Procs :
          (pc[p] # "done" /\ pc'[p] = "done" /\ call'[p].op = "search"
           /\ res'[p].err = NoErr)
          => \A id \in res'[p].sales : \A q \in Procs :
               Updating(id) = {q}
               => \/ /\ m[id].status = pre[q].status
                     /\ m[id].version = pre[q].version
                     /\ m[id].updatedAt = pre[q].updatedAt
                  \/ /\ m[id].status = call[q].status
                     /\ m[id].version = pre[q].version + 1]_vars

\* ------------------------------------------------------------------ C29
\* C29: in every state, under every interleaving, every stored sale has one of
\* the three statuses and version 1 or 2; a pending sale has version 1, and a
\* sale at version 2 is approved or rejected.
C29_StatusAndVersion ==
    \A id \in DOMAIN m :
        /\ m[id].status \in {"pending", "approved", "rejected"}
        /\ m[id].version \in {1, 2}
        /\ m[id].status = "pending" => m[id].version = 1
        /\ m[id].version = 2 => m[id].status \in {"approved", "rejected"}

\* ------------------------------------------------------------------ C30
\* C30: no step of a SearchSale call, whatever its filters and whether it ends
\* in success or in an error, changes the set of stored sales or a field of a
\* stored sale.
C30_SearchFrame ==
    [][\A p \in Procs : call'[p].op = "search" => m' = m]_vars

\* a search of the sales of u2 failed in the user validation, with two sales
\* stored
C30_Witness ==
    /\ Returned(1, "search")
    /\ call[1].userID = "u2"
    /\ vresp[1] = "transport"
    /\ res[1].err # NoErr
    /\ DOMAIN m = {1, 2}

\* ------------------------------------------------------------------ C31
\* C31: when SearchSale has returned to handlerGetSale, the response is 400 Bad
\* Request if the call failed with the invalid-status error, which is the case
\* of every search whose status filter is unknown and whose user validation
\* did not fail; it is 500 exactly when the call failed with another error,
\* and 200 when the call succeeded.
C31_SearchStatusCode ==
    \A p \in Procs :
        Returned(p, "search")
        => /\ IsInvalidStatus(res[p].err) => UnknownFilter(p)
           /\ (UnknownFilter(p) /\ (call[p].userID = "" \/ vresp[p] = "ok"))
                  => IsInvalidStatus(res[p].err)
           /\ code[p] = StatusBadRequest <=> IsInvalidStatus(res[p].err)
           /\ code[p] = StatusInternalServerError
                  <=> (res[p].err # NoErr /\ ~IsInvalidStatus(res[p].err))
           /\ code[p] = StatusOK <=> res[p].err = NoErr

\* GET /sales?id=u1&state=unknown, u1 resolved by the user service, answered
\* with 400 while sales are stored
C31_Witness ==
    /\ Returned(1, "search")
    /\ query[1].id = "u1"
    /\ query[1].state = "unknown"
    /\ vresp[1] = "ok"
    /\ DOMAIN m # {}
    /\ code[1] = StatusBadRequest

\* ------------------------------------------------------------------ C32
\* C32: the response to GET /sales?user_id=U holds only sales whose userID is
\* U, and the response to GET /sales?status=S holds only sales whose status
\* is S.
C32_FiltersByQuery ==
    \A p \in Procs :
        (Returned(p, "search") /\ res[p].err = NoErr)
        => \A i \in res[p].sales :
               /\ Query(query[p], "user_id") # "" => m[i].userID = Query(query[p], "user_id")
               /\ Query(query[p], "status") # "" => m[i].status = Query(query[p], "status")

====
